---- MODULE Spec2Model ----
(***************************************************************************)
(* A model of process_playlist.py: the M3U parser, the keyword classifier, *)
(* the playlist and catalog serializers, and the batch pipeline main().    *)
(* Text is modelled by TLA+ strings, character by character: the regular   *)
(* expressions, strip(), split('\n'), lower() and startswith() of the      *)
(* source are operators over the characters of a string.                   *)
(***************************************************************************)
EXTENDS Integers, Sequences, FiniteSets, TLC

VARIABLES
    pc,            \* position of main(), or of the function under study
    api_key,       \* os.environ.get('API_KEY'): <<>> when unset, else <<value>>
    fetch_calls,   \* number of requests.get calls made so far
    m3u_content,   \* result of fetch_m3u: <<>> for None, else <<text>>
    lines,         \* parse_m3u: content.strip().split('\n')
    i,             \* parse_m3u: loop index (0-based, as in the source)
    channels,      \* parse_m3u: the list of channel_info dicts / a serializer's input
    files,         \* the file system: name -> <<>> (not written) or <<content>>
    channel_name,  \* detect_category: its argument
    category,      \* detect_category: <<>> before the call, <<label>> after
    m3u_out,       \* create_m3u: <<>> before the call, <<text>> after
    json_out       \* create_json: <<>> before the call, <<json_data>> after

vars == <<pc, api_key, fetch_calls, m3u_content, lines, i, channels, files,
          channel_name, category, m3u_out, json_out>>

----------------------------------------------------------------------------
(* Bounds of the model. *)

\* Largest number of lines in a fetched playlist text.
MaxLines == 3
\* Largest number of fragments a channel name is assembled from.
MaxFragments == 2
\* Largest number of records handed to a serializer.
MaxChannels == 3

----------------------------------------------------------------------------
(* Python's str primitives. *)

Min(S) == CHOOSE x \in S : \A y \in S : x <= y
Max(S) == CHOOSE x \in S : \A y \in S : x >= y

\* s[p] for a 1-based position p.
Char(s, p) == SubSeq(s, p, p)

\* Characters str.strip() removes.
Whitespace == {" ", "\t", "\n", "\r", "\f"}

\* str.strip()
Strip(s) ==
    LET keep == {p \in 1..Len(s) : Char(s, p) \notin Whitespace}
    IN IF keep = {} THEN "" ELSE SubSeq(s, Min(keep), Max(keep))

\* str.startswith(prefix)
StartsWith(s, prefix) ==
    Len(s) >= Len(prefix) /\ SubSeq(s, 1, Len(prefix)) = prefix

\* `sub in s`
Contains(s, sub) ==
    \E p \in 1..(Len(s) - Len(sub) + 1) : SubSeq(s, p, p + Len(sub) - 1) = sub

\* Positions at which `sub` occurs in s.
Occurrences(s, sub) ==
    {p \in 1..(Len(s) - Len(sub) + 1) : SubSeq(s, p, p + Len(sub) - 1) = sub}

UpperCase == "ABCDEFGHIJKLMNOPQRSTUVWXYZ"
LowerCase == "abcdefghijklmnopqrstuvwxyz"

\* str.lower() of one character.
LowerChar(c) ==
    LET at == Occurrences(UpperCase, c)
    IN IF at = {} THEN c ELSE Char(LowerCase, Min(at))

\* str.lower()
RECURSIVE Lower(_)
Lower(s) == IF s = "" THEN "" ELSE LowerChar(Char(s, 1)) \o Lower(Tail(s))

\* str.split('\n')
RECURSIVE Split(_)
Split(s) ==
    LET at == Occurrences(s, "\n")
    IN IF at = {} THEN <<s>>
       ELSE <<SubSeq(s, 1, Min(at) - 1)>> \o Split(SubSeq(s, Min(at) + 1, Len(s)))

\* The printable ASCII characters in code point order: 32 to 95, and 97 to 126.
AsciiLow ==
    " !\"#$%&'()*+,-./0123456789:;<=>?@ABCDEFGHIJKLMNOPQRSTUVWXYZ[\\]^_"
AsciiHigh ==
    "abcdefghijklmnopqrstuvwxyz{|}~"

\* ord(c); the control characters of Whitespace lie below the space.
Ord(c) ==
    LET low == Occurrences(AsciiLow, c)
        high == Occurrences(AsciiHigh, c)
    IN IF low # {} THEN 31 + Min(low)
       ELSE IF high # {} THEN 96 + Min(high)
       ELSE 0

\* a < b for Python strings: code point by code point, a proper prefix first.
RECURSIVE StrLess(_, _)
StrLess(a, b) ==
    IF b = "" THEN FALSE
    ELSE IF a = "" THEN TRUE
    ELSE IF Char(a, 1) = Char(b, 1) THEN StrLess(Tail(a), Tail(b))
    ELSE Ord(Char(a, 1)) < Ord(Char(b, 1))

\* sorted(S) for a set of strings.
RECURSIVE Sorted(_)
Sorted(S) ==
    IF S = {} THEN <<>>
    ELSE LET m == CHOOSE a \in S : \A b \in S \ {a} : StrLess(a, b)
         IN <<m>> \o Sorted(S \ {m})

\* A dict: a function from its keys. dict.get(key, default) and d[key] = value.
EmptyDict == <<>>
Get(d, key, default) == IF key \in DOMAIN d THEN d[key] ELSE default
Put(d, key, value) ==
    [k \in DOMAIN d \cup {key} |-> IF k = key THEN value ELSE d[k]]

----------------------------------------------------------------------------
(* detect_category *)

\* any(word in name_lower for word in words)
AnyWordIn(words, name_lower) ==
    \E k \in 1..Len(words) : Contains(name_lower, words[k])

\* detect_category with the Movies rule tried before the Sports rule.
detect_category_movies_first(name) ==
    LET name_lower == Lower(name)
    IN IF AnyWordIn(<<"max", "pix", "wah", "movie">>, name_lower)
         THEN "Movies"
       ELSE IF AnyWordIn(<<"sports", "ten 1", "ten 2", "ten 3", "ten 4", "ten 5", "six">>, name_lower)
         THEN "Sports"
       ELSE IF AnyWordIn(<<"yay", "kids", "cartoon">>, name_lower)
         THEN "Kids"
       ELSE IF AnyWordIn(<<"marathi", "aath", "bengali", "tamil", "telugu", "kannada">>, name_lower)
         THEN "Regional"
       ELSE IF AnyWordIn(<<"set", "sab", "pal", "sony tv", "entertainment">>, name_lower)
         THEN "Entertainment"
       ELSE IF AnyWordIn(<<"news", "aaj tak", "india tv", "ndtv">>, name_lower)
         THEN "News"
       ELSE IF AnyWordIn(<<"music", "mtv", "vh1", "9xm">>, name_lower)
         THEN "Music"
       ELSE "Entertainment"

detect_category(name) ==
    LET name_lower == Lower(name)
    IN IF AnyWordIn(<<"sports", "ten 1", "ten 2", "ten 3", "ten 4", "ten 5", "six">>, name_lower)
         THEN "Sports"
       ELSE IF AnyWordIn(<<"max", "pix", "wah", "movie">>, name_lower)
         THEN "Movies"
       ELSE IF AnyWordIn(<<"yay", "kids", "cartoon">>, name_lower)
         THEN "Kids"
       ELSE IF AnyWordIn(<<"marathi", "aath", "bengali", "tamil", "telugu", "kannada">>, name_lower)
         THEN "Regional"
       ELSE IF AnyWordIn(<<"set", "sab", "pal", "sony tv", "entertainment">>, name_lower)
         THEN "Entertainment"
       ELSE IF AnyWordIn(<<"news", "aaj tak", "india tv", "ndtv">>, name_lower)
         THEN "News"
       ELSE IF AnyWordIn(<<"music", "mtv", "vh1", "9xm">>, name_lower)
         THEN "Music"
       ELSE "Entertainment"

----------------------------------------------------------------------------
(* parse_m3u *)

\* re.search(attr + '="([^"]*)"', line): <<>> for no match, else <<group(1)>>.
\* The leftmost place where the literal attr=" is followed, after any run of
\* characters other than a double quote, by a double quote.
AttrSearch(attr, line) ==
    LET lit == attr \o "=\""
        closing(p) == {q \in (p + Len(lit))..Len(line) : Char(line, q) = "\""}
        starts == {p \in Occurrences(line, lit) : closing(p) # {}}
    IN IF starts = {} THEN <<>>
       ELSE LET p == Min(starts)
            IN <<SubSeq(line, p + Len(lit), Min(closing(p)) - 1)>>

\* re.search(r',(.+)$', line): <<>> for no match, else <<group(1)>>.
\* The leftmost comma followed by at least one character, none a newline,
\* up to the end of the line.
NameSearch(line) ==
    LET starts == {p \in Occurrences(line, ",") :
                      /\ p < Len(line)
                      /\ ~Contains(SubSeq(line, p + 1, Len(line)), "\n")}
    IN IF starts = {} THEN <<>>
       ELSE <<SubSeq(line, Min(starts) + 1, Len(line))>>

\* ChannelInfo that takes any matched group-title as it stands: no strip(), and
\* an empty or blank value kept as the category.
ChannelInfoRawGroup(line) ==
    LET tvg_id_match == AttrSearch("tvg-id", line)
        tvg_name_match == AttrSearch("tvg-name", line)
        tvg_logo_match == AttrSearch("tvg-logo", line)
        group_match == AttrSearch("group-title", line)
        name_match == NameSearch(line)
        d1 == IF tvg_id_match # <<>>
                THEN Put(EmptyDict, "tvg_id", tvg_id_match[1]) ELSE EmptyDict
        d2 == IF tvg_name_match # <<>>
                THEN Put(d1, "tvg_name", tvg_name_match[1]) ELSE d1
        d3 == IF tvg_logo_match # <<>>
                THEN Put(d2, "tvg_logo", tvg_logo_match[1]) ELSE d2
        d4 == IF group_match # <<>>
                THEN Put(d3, "group_title", group_match[1]) ELSE d3
    IN IF name_match # <<>>
         THEN LET name == Strip(name_match[1])
                  d5 == Put(d4, "name", name)
              IN IF "group_title" \notin DOMAIN d5
                   THEN Put(d5, "group_title", detect_category(name))
                   ELSE d5
         ELSE d4

\* Lines 64-94: the channel_info dict built from one stripped #EXTINF line.
ChannelInfo(line) ==
    LET tvg_id_match == AttrSearch("tvg-id", line)
        tvg_name_match == AttrSearch("tvg-name", line)
        tvg_logo_match == AttrSearch("tvg-logo", line)
        group_match == AttrSearch("group-title", line)
        name_match == NameSearch(line)
        d1 == IF tvg_id_match # <<>>
                THEN Put(EmptyDict, "tvg_id", tvg_id_match[1]) ELSE EmptyDict
        d2 == IF tvg_name_match # <<>>
                THEN Put(d1, "tvg_name", tvg_name_match[1]) ELSE d1
        d3 == IF tvg_logo_match # <<>>
                THEN Put(d2, "tvg_logo", tvg_logo_match[1]) ELSE d2
        d4 == IF group_match # <<>> /\ Strip(group_match[1]) # ""
                THEN Put(d3, "group_title", Strip(group_match[1])) ELSE d3
    IN IF name_match # <<>>
         THEN LET name == Strip(name_match[1])
                  d5 == Put(d4, "name", name)
              IN IF "group_title" \notin DOMAIN d5
                   THEN Put(d5, "group_title", detect_category(name))
                   ELSE d5
         ELSE d4

\* ParseIteration that steps over the line after a metadata line whether or
\* not it was taken as the URL.
ParseIterationSkipsNext(ls, idx, chans) ==
    LET line == Strip(ls[idx + 1])
    IN IF StartsWith(line, "#EXTINF:")
         THEN LET channel_info == ChannelInfo(line)
              IN IF idx + 1 < Len(ls)
                   THEN LET url_line == Strip(ls[idx + 2])
                        IN IF url_line # "" /\ ~StartsWith(url_line, "#")
                             THEN [i |-> idx + 2,
                                   channels |-> Append(chans, Put(channel_info, "url", url_line))]
                             ELSE [i |-> idx + 2, channels |-> chans]
                   ELSE [i |-> idx + 1, channels |-> chans]
         ELSE [i |-> idx + 1, channels |-> chans]

\* One iteration of the while loop (lines 60-104) at index idx (0-based) with
\* the records collected so far: the next index and the records.
ParseIteration(ls, idx, chans) ==
    LET line == Strip(ls[idx + 1])
    IN IF StartsWith(line, "#EXTINF:")
         THEN LET channel_info == ChannelInfo(line)
              IN IF idx + 1 < Len(ls)
                   THEN LET url_line == Strip(ls[idx + 2])
                        IN IF url_line # "" /\ ~StartsWith(url_line, "#")
                             THEN [i |-> idx + 2,
                                   channels |-> Append(chans, Put(channel_info, "url", url_line))]
                             ELSE [i |-> idx + 1, channels |-> chans]
                   ELSE [i |-> idx + 1, channels |-> chans]
         ELSE [i |-> idx + 1, channels |-> chans]

\* The while loop from index idx on.
RECURSIVE ParseFrom(_, _, _)
ParseFrom(ls, idx, chans) ==
    IF idx < Len(ls)
      THEN LET r == ParseIteration(ls, idx, chans)
           IN ParseFrom(ls, r.i, r.channels)
      ELSE chans

parse_m3u(content) == ParseFrom(Split(Strip(content)), 0, <<>>)

----------------------------------------------------------------------------
(* create_m3u *)

\* Lines 111-118. The source's trade mark sign and bullets, which are not
\* ASCII, are written (TM) and *: they stand in comment lines of the playlist.
M3uHeader ==
    "#EXTM3U x-tvg-url=\"https://www.tsepg.cf/epg.xml.gz\"\n"
    \o "# ===============================\n"
    \o "#  StreamFlex(TM) Official Playlist\n"
    \o "#  AU * Secure * Private\n"
    \o "#  Join: https://t.me/streamflex19\n"
    \o "# ===============================\n"
    \o "\n"

\* Lines 161-165.
M3uFooter ==
    "# =====================================\n"
    \o "# Generated by StreamFlex\n"
    \o "# Thank you\n"
    \o "# =====================================\n"

\* channel.get('group_title', 'Entertainment')
CategoryOf(channel) == Get(channel, "group_title", "Entertainment")

\* categories.keys() after the grouping loop.
CategoryKeys(chans) == {CategoryOf(chans[k]) : k \in 1..Len(chans)}

\* categories[cat] after the grouping loop of create_m3u (lines 121-124).
M3uBucket(chans, cat) == SelectSeq(chans, LAMBDA ch : CategoryOf(ch) = cat)

category_order ==
    <<"Entertainment", "Movies", "Sports", "Kids", "Regional", "News", "Music">>

InCategoryOrder(cat) == \E k \in 1..Len(category_order) : category_order[k] = cat

\* sorted_categories with every category in alphabetical order.
sorted_categories_alphabetical(chans) == Sorted(CategoryKeys(chans))

\* Lines 130-132.
sorted_categories(chans) ==
    LET keys == CategoryKeys(chans)
    IN SelectSeq(category_order, LAMBDA cat : cat \in keys)
       \o Sorted({cat \in keys : ~InCategoryOrder(cat)})

\* Lines 141-155: the two lines of one channel and the blank line after them.
M3uEntry(channel) ==
    LET e0 == "#EXTINF:-1"
        e1 == IF "tvg_id" \in DOMAIN channel
                THEN e0 \o " tvg-id=\"" \o channel["tvg_id"] \o "\"" ELSE e0
        e2 == IF "tvg_name" \in DOMAIN channel
                THEN e1 \o " tvg-name=\"" \o channel["tvg_name"] \o "\"" ELSE e1
        e3 == IF "tvg_logo" \in DOMAIN channel
                THEN e2 \o " tvg-logo=\"" \o channel["tvg_logo"] \o "\"" ELSE e2
        e4 == IF "group_title" \in DOMAIN channel
                THEN e3 \o " group-title=\"" \o channel["group_title"] \o "\"" ELSE e3
        extinf == e4 \o "," \o Get(channel, "name", "Unknown") \o "\n"
    IN extinf \o Get(channel, "url", "") \o "\n\n"

\* The inner loop (lines 139-155) over one bucket.
RECURSIVE M3uEntries(_)
M3uEntries(bucket) ==
    IF bucket = <<>> THEN ""
    ELSE M3uEntry(Head(bucket)) \o M3uEntries(Tail(bucket))

\* The outer loop (lines 135-158) over the categories cats, in order.
RECURSIVE M3uSections(_, _)
M3uSections(chans, cats) ==
    IF cats = <<>> THEN ""
    ELSE "# ========== " \o Head(cats) \o " ==========\n"
         \o M3uEntries(M3uBucket(chans, Head(cats)))
         \o "\n"
         \o M3uSections(chans, Tail(cats))

create_m3u(chans) ==
    M3uHeader \o M3uSections(chans, sorted_categories(chans)) \o M3uFooter

----------------------------------------------------------------------------
(* create_json *)

\* The dict appended at lines 175-182 and at lines 203-210.
JsonChannel(channel) ==
    [name |-> Get(channel, "name", "Unknown"),
     tvg_id |-> Get(channel, "tvg_id", ""),
     tvg_name |-> Get(channel, "tvg_name", ""),
     logo |-> Get(channel, "tvg_logo", ""),
     group |-> CategoryOf(channel),
     url |-> Get(channel, "url", "")]

\* The list of the dicts of a list of channels, in its order.
RECURSIVE JsonChannels(_)
JsonChannels(chans) ==
    IF chans = <<>> THEN <<>>
    ELSE <<JsonChannel(Head(chans))>> \o JsonChannels(Tail(chans))

\* JsonBucket that groups by channel['group_title'] and so leaves out the
\* channels that have no such key.
JsonBucketTaggedOnly(chans, cat) ==
    JsonChannels(SelectSeq(chans, LAMBDA ch :
        "group_title" \in DOMAIN ch /\ ch["group_title"] = cat))

\* categories[cat] after the grouping loop of create_json (lines 172-182).
JsonBucket(chans, cat) ==
    JsonChannels(SelectSeq(chans, LAMBDA ch : CategoryOf(ch) = cat))

\* json_data["categories"] (lines 193-197): a dict filled in the order of the
\* keys given, kept as the list of its items in that order.
RECURSIVE JsonCategories(_, _)
JsonCategories(chans, keys) ==
    IF keys = <<>> THEN <<>>
    ELSE <<[key |-> Head(keys),
            count |-> Len(JsonBucket(chans, Head(keys))),
            channels |-> JsonBucket(chans, Head(keys))]>>
         \o JsonCategories(chans, Tail(keys))

\* datetime.utcnow().isoformat(): one reading of the clock.
UtcNowIso == "2024-01-01T00:00:00"

\* json_data (lines 185-210), the value handed to json.dumps.
create_json(chans) ==
    [StreamFlex_A_updated_at |-> UtcNowIso \o "Z",
     StreamFlex_SL_total_channels |-> Len(chans),
     total_categories |-> Cardinality(CategoryKeys(chans)),
     categories |-> JsonCategories(chans, Sorted(CategoryKeys(chans))),
     all_channels |-> JsonChannels(chans)]

----------------------------------------------------------------------------
(* Inputs *)

\* Lines a fetched playlist is made of: metadata lines with an empty, a padded,
\* an absent and a blank group-title, with a comma inside an attribute, and
\* with no comma at all; URL lines, bare and padded; an empty line; a comment.
LinePool ==
    {"#EXTINF:-1 tvg-id=\"s1\" group-title=\"\",Sony SET HD",
     "#EXTINF:-1 group-title=\" Docs \",Movie Max",
     "#EXTINF:-1 tvg-logo=\"http://l/a,b.png\",Ten 1 HD",
     "#EXTINF:-1 group-title=\"  \",Zee News",
     "#EXTINF:-1 tvg-name=\"x\"",
     "http://x/1",
     "  http://x/2\r",
     "",
     "# note"}

\* '\n'.join(ls)
RECURSIVE Join(_)
Join(ls) ==
    IF Len(ls) = 1 THEN ls[1] ELSE ls[1] \o "\n" \o Join(Tail(ls))

\* The playlist texts the server may answer with.
Texts ==
    {""} \cup {Join(ls) : ls \in UNION {[1..n -> LinePool] : n \in 1..MaxLines}}

\* What requests.get and raise_for_status may do: raise, or give a text.
Responses ==
    {[raises |-> e, text |-> ""] : e \in {"ConnectionError", "Timeout", "HTTPError"}}
    \cup {[raises |-> "", text |-> t] : t \in Texts}

\* Values of the environment variable API_KEY: unset, empty, a URL.
ApiKeys == {<<>>, <<"">>, <<"https://src.example/playlist.m3u">>}

NoFiles == [f \in {"SL.m3u", "sl.json"} |-> <<>>]

----------------------------------------------------------------------------
(* main *)

\* fetch_m3u (lines 8-16): None when anything raises, else response.text.
fetch_m3u(response) ==
    IF response.raises # "" THEN <<>> ELSE <<response.text>>

Init ==
    /\ pc = "start"
    /\ api_key \in ApiKeys
    /\ fetch_calls = 0
    /\ m3u_content = <<>>
    /\ lines = <<>>
    /\ i = 0
    /\ channels = <<>>
    /\ files = NoFiles
    /\ channel_name = ""
    /\ category = <<>>
    /\ m3u_out = <<>>
    /\ json_out = <<>>

\* CheckApiKey without the early return.
CheckApiKeyProceeds ==
    /\ pc = "start"
    /\ pc' = "fetch"
    /\ UNCHANGED <<api_key, fetch_calls, m3u_content, lines, i, channels, files,
                   channel_name, category, m3u_out, json_out>>

\* Lines 216-220: `if not api_key: return`.
CheckApiKey ==
    /\ pc = "start"
    /\ pc' = IF api_key = <<>> \/ api_key = <<"">> THEN "done" ELSE "fetch"
    /\ UNCHANGED <<api_key, fetch_calls, m3u_content, lines, i, channels, files,
                   channel_name, category, m3u_out, json_out>>

\* Lines 225-229: the call of fetch_m3u and `if not m3u_content: return`.
Fetch ==
    /\ pc = "fetch"
    /\ \E response \in Responses :
          /\ m3u_content' = fetch_m3u(response)
          /\ pc' = IF m3u_content' = <<>> \/ m3u_content' = <<"">>
                     THEN "done" ELSE "parse_m3u"
    /\ fetch_calls' = fetch_calls + 1
    /\ UNCHANGED <<api_key, lines, i, channels, files,
                   channel_name, category, m3u_out, json_out>>

\* Lines 55-58: the entry of parse_m3u.
ParseBegin ==
    /\ pc = "parse_m3u"
    /\ lines' = Split(Strip(m3u_content[1]))
    /\ i' = 0
    /\ channels' = <<>>
    /\ pc' = "while"
    /\ UNCHANGED <<api_key, fetch_calls, m3u_content, files,
                   channel_name, category, m3u_out, json_out>>

\* Lines 59-104: one iteration of the while loop.
ParseLoop ==
    /\ pc = "while"
    /\ i < Len(lines)
    /\ LET r == ParseIteration(lines, i, channels)
       IN /\ i' = r.i
          /\ channels' = r.channels
    /\ UNCHANGED <<pc, api_key, fetch_calls, m3u_content, lines, files,
                   channel_name, category, m3u_out, json_out>>

\* Line 106 and lines 234-244: the loop ends, parse_m3u returns its list.
ParseReturn ==
    /\ pc = "while"
    /\ ~(i < Len(lines))
    /\ pc' = "write_m3u"
    /\ UNCHANGED <<api_key, fetch_calls, m3u_content, lines, i, channels, files,
                   channel_name, category, m3u_out, json_out>>

\* Lines 247-249.
WriteM3u ==
    /\ pc = "write_m3u"
    /\ files' = [files EXCEPT !["SL.m3u"] = <<create_m3u(channels)>>]
    /\ pc' = "write_json"
    /\ UNCHANGED <<api_key, fetch_calls, m3u_content, lines, i, channels,
                   channel_name, category, m3u_out, json_out>>

\* WriteJson that writes no catalog when there is no channel.
WriteJsonUnlessEmpty ==
    /\ pc = "write_json"
    /\ files' = IF channels = <<>> THEN files
                ELSE [files EXCEPT !["sl.json"] = <<create_json(channels)>>]
    /\ pc' = "done"
    /\ UNCHANGED <<api_key, fetch_calls, m3u_content, lines, i, channels,
                   channel_name, category, m3u_out, json_out>>

\* Lines 254-259.
WriteJson ==
    /\ pc = "write_json"
    /\ files' = [files EXCEPT !["sl.json"] = <<create_json(channels)>>]
    /\ pc' = "done"
    /\ UNCHANGED <<api_key, fetch_calls, m3u_content, lines, i, channels,
                   channel_name, category, m3u_out, json_out>>

Next ==
    \/ CheckApiKey
    \/ Fetch
    \/ ParseBegin
    \/ ParseLoop
    \/ ParseReturn
    \/ WriteM3u
    \/ WriteJson

Spec == Init /\ [][Next]_vars

----------------------------------------------------------------------------
(* detect_category on its own *)

\* Pieces of channel names: every keyword of the seven rules, in mixed case,
\* and pieces that are no keyword.
NameFragments ==
    {"Sports", "Ten 1", "ten 2", "TEN 3", "Ten 4", "ten 5", "SIX",
     "Max", "PIX", "Wah", "Movie",
     "YAY", "Kids", "Cartoon",
     "Marathi", "Aath", "Bengali", "Tamil", "Telugu", "Kannada",
     "SET", "SAB", "Pal", "Sony TV", "Entertainment",
     "News", "Aaj Tak", "India TV", "NDTV",
     "Music", "MTV", "VH1", "9XM",
     "Zee", " HD", "Ten"}

RECURSIVE Concat(_)
Concat(parts) ==
    IF parts = <<>> THEN "" ELSE Head(parts) \o Concat(Tail(parts))

Names ==
    {Concat(parts) : parts \in UNION {[1..n -> NameFragments] : n \in 0..MaxFragments}}

InitClassify ==
    /\ pc = "detect_category"
    /\ channel_name \in Names
    /\ category = <<>>
    /\ api_key = <<>>
    /\ fetch_calls = 0
    /\ m3u_content = <<>>
    /\ lines = <<>>
    /\ i = 0
    /\ channels = <<>>
    /\ files = NoFiles
    /\ m3u_out = <<>>
    /\ json_out = <<>>

\* One call detect_category(channel_name).
Classify ==
    /\ pc = "detect_category"
    /\ category' = <<detect_category(channel_name)>>
    /\ pc' = "returned"
    /\ UNCHANGED <<api_key, fetch_calls, m3u_content, lines, i, channels, files,
                   channel_name, m3u_out, json_out>>

NextClassify == Classify

SpecClassify == InitClassify /\ [][NextClassify]_vars

----------------------------------------------------------------------------
(* create_m3u and create_json on their own *)

\* Records parse_m3u produces: with a category of the preferred order, with
\* a category outside it, with and without the optional attributes, and the
\* records of metadata lines that have no comma.
ChannelPool ==
    {[tvg_id |-> "s1", name |-> "Sony SET HD", group_title |-> "Entertainment", url |-> "http://x/1"],
     [name |-> "Movie Max", group_title |-> "Movies", url |-> "http://x/2"],
     [tvg_logo |-> "http://l/3.png", name |-> "Ten 1 HD", group_title |-> "Sports", url |-> "http://x/3"],
     [name |-> "Planet", group_title |-> "Docs", url |-> "http://x/4"],
     [name |-> "Zed One", group_title |-> "Zed", url |-> "http://x/5"],
     [tvg_name |-> "d", name |-> "Deep Sea", group_title |-> "documentary", url |-> "http://x/6"],
     [tvg_name |-> "x", url |-> "http://x/7"],
     [group_title |-> "News", url |-> "http://x/8"]}

ChannelLists == UNION {[1..n -> ChannelPool] : n \in 0..MaxChannels}

InitSerialize ==
    /\ pc = "serialize"
    /\ channels \in ChannelLists
    /\ m3u_out = <<>>
    /\ json_out = <<>>
    /\ api_key = <<>>
    /\ fetch_calls = 0
    /\ m3u_content = <<>>
    /\ lines = <<>>
    /\ i = 0
    /\ files = NoFiles
    /\ channel_name = ""
    /\ category = <<>>

\* One call create_m3u(channels).
CreateM3u ==
    /\ pc = "serialize"
    /\ m3u_out = <<>>
    /\ m3u_out' = <<create_m3u(channels)>>
    /\ UNCHANGED <<pc, api_key, fetch_calls, m3u_content, lines, i, channels, files,
                   channel_name, category, json_out>>

\* One call create_json(channels).
CreateJson ==
    /\ pc = "serialize"
    /\ json_out = <<>>
    /\ json_out' = <<create_json(channels)>>
    /\ UNCHANGED <<pc, api_key, fetch_calls, m3u_content, lines, i, channels, files,
                   channel_name, category, m3u_out>>

NextSerialize ==
    \/ CreateM3u
    \/ CreateJson

SpecSerialize == InitSerialize /\ [][NextSerialize]_vars

----------------------------------------------------------------------------
(* Properties *)

\* The record a step of the while loop has just appended.
Emitted == channels'[Len(channels')]

\* A step of the while loop that appends a record.
EmitStep == pc = "while" /\ i < Len(lines) /\ Len(channels') = Len(channels) + 1

\* The trimmed metadata line the while loop stands on.
CurrentLine == Strip(lines[i + 1])

\* C1: every record parse_m3u returns has a non-empty name and a populated
\* category; a metadata line from which no name can be extracted gives no record.
C1_RecordsNamed ==
    \A k \in 1..Len(channels) :
        /\ "name" \in DOMAIN channels[k]
        /\ channels[k]["name"] # ""
        /\ "group_title" \in DOMAIN channels[k]
        /\ channels[k]["group_title"] # ""

\* The line after the metadata line the loop stands on is missing, empty after
\* trimming, or starts with '#'.
NoUsableUrl ==
    \/ i + 1 = Len(lines)
    \/ Strip(lines[i + 2]) = ""
    \/ StartsWith(Strip(lines[i + 2]), "#")

\* C2: a metadata line that is the last line, or whose next line is empty
\* after trimming or starts with '#', adds no record, and the scan resumes at
\* that next line; a record that is emitted has the trimmed next line as its
\* url, and the scan then moves past both lines.
C2_DanglingMetadata ==
    [][(pc = "while" /\ i < Len(lines) /\ StartsWith(CurrentLine, "#EXTINF:"))
         => IF NoUsableUrl
              THEN channels' = channels /\ i' = i + 1
              ELSE /\ Len(channels') = Len(channels) + 1
                   /\ SubSeq(channels', 1, Len(channels)) = channels
                   /\ Emitted["url"] = Strip(lines[i + 2])
                   /\ i' = i + 2]_vars

\* A metadata line followed by a metadata line was dropped, and the loop now
\* stands on the second one, which has a URL line after it.
C2_Witness ==
    /\ pc = "while"
    /\ i = 1
    /\ Len(lines) = 3
    /\ StartsWith(Strip(lines[1]), "#EXTINF:")
    /\ StartsWith(Strip(lines[2]), "#EXTINF:")
    /\ lines[3] = "http://x/1"
    /\ channels = <<>>

\* Everything after the last comma of a line that has a comma.
AfterLastComma(line) ==
    SubSeq(line, Max(Occurrences(line, ",")) + 1, Len(line))

\* C3: the name of a record is everything after the last comma of its
\* metadata line, trimmed.
C3_NameAfterLastComma ==
    [][(EmitStep /\ Occurrences(CurrentLine, ",") # {})
         => /\ "name" \in DOMAIN Emitted
            /\ Emitted["name"] = Strip(AfterLastComma(CurrentLine))]_vars

\* The line without its first group-title attribute and the space before it.
WithoutGroupTitle(line) ==
    LET lit == " group-title=\""
        p == Min(Occurrences(line, lit))
        q == Min({r \in (p + Len(lit))..Len(line) : Char(line, r) = "\""})
    IN SubSeq(line, 1, p - 1) \o SubSeq(line, q + 1, Len(line))

\* The group-title attribute is blank and lies before the first comma.
BlankGroupTitleAttribute(line) ==
    /\ AttrSearch("group-title", line) # <<>>
    /\ Strip(AttrSearch("group-title", line)[1]) = ""
    /\ Occurrences(line, " group-title=\"") # {}
    /\ Occurrences(line, ",") # {}
    /\ Min(Occurrences(line, " group-title=\"")) + Len(" group-title=\"")
          < Min(Occurrences(line, ","))

CategoryRules ==
    <<[label |-> "Sports", words |-> {"sports", "ten 1", "ten 2", "ten 3", "ten 4", "ten 5", "six"}],
      [label |-> "Movies", words |-> {"max", "pix", "wah", "movie"}],
      [label |-> "Kids", words |-> {"yay", "kids", "cartoon"}],
      [label |-> "Regional", words |-> {"marathi", "aath", "bengali", "tamil", "telugu", "kannada"}],
      [label |-> "Entertainment", words |-> {"set", "sab", "pal", "sony tv", "entertainment"}],
      [label |-> "News", words |-> {"news", "aaj tak", "india tv", "ndtv"}],
      [label |-> "Music", words |-> {"music", "mtv", "vh1", "9xm"}]>>

\* The rules one of whose keywords occurs in a lowercased name.
MatchingRules(name_lower) ==
    {r \in 1..Len(CategoryRules) :
        \E w \in CategoryRules[r].words : Contains(name_lower, w)}

\* C5: detect_category returns the label of the first rule that matches the
\* lowercased name, "Entertainment" when none does; with a Sports and a Movies
\* keyword in the name the label is "Sports".
C5_FirstRuleWins ==
    category # <<>>
      => LET matching == MatchingRules(Lower(channel_name))
         IN /\ category[1] = IF matching = {} THEN "Entertainment"
                             ELSE CategoryRules[Min(matching)].label
            /\ ({1, 2} \subseteq matching => category[1] = "Sports")

\* A name with the Movies keyword before the Sports keyword was classified.
C5_Witness ==
    /\ category = <<"Sports">>
    /\ channel_name = "MovieTen 1"

\* A dict's value under a key, or nothing.
Field(d, key) == IF key \in DOMAIN d THEN <<d[key]>> ELSE <<>>

\* The (name, category, url) triples of a list of records, in its order.
RECURSIVE Triples(_)
Triples(chans) ==
    IF chans = <<>> THEN <<>>
    ELSE <<[name |-> Field(Head(chans), "name"),
            category |-> Field(Head(chans), "group_title"),
            url |-> Field(Head(chans), "url")]>>
         \o Triples(Tail(chans))

\* Two lists hold the same triples, in the same order inside each category.
SameTriples(a, b) ==
    /\ Len(a) = Len(b)
    /\ \A c \in {a[k].category : k \in 1..Len(a)} \cup {b[k].category : k \in 1..Len(b)} :
          SelectSeq(a, LAMBDA t : t.category = c) = SelectSeq(b, LAMBDA t : t.category = c)

\* C6: parsing the playlist create_m3u writes for the parsed records gives
\* the same (name, category, url) triples, in the same order inside each category.
C6_RoundTrip ==
    pc = "write_m3u"
      => SameTriples(Triples(channels), Triples(parse_m3u(create_m3u(channels))))

SeparatorHead == "# ========== "
SeparatorTail == " =========="

\* A category separator line of the playlist.
IsSeparator(line) ==
    /\ Len(line) >= Len(SeparatorHead) + Len(SeparatorTail)
    /\ StartsWith(line, SeparatorHead)
    /\ SubSeq(line, Len(line) - Len(SeparatorTail) + 1, Len(line)) = SeparatorTail

SeparatorName(line) ==
    SubSeq(line, Len(SeparatorHead) + 1, Len(line) - Len(SeparatorTail))

\* The categories of the separator lines of a playlist, in order.
RECURSIVE Separators(_)
Separators(ls) ==
    IF ls = <<>> THEN <<>>
    ELSE IF IsSeparator(Head(ls))
      THEN <<SeparatorName(Head(ls))>> \o Separators(Tail(ls))
    ELSE Separators(Tail(ls))

\* The entries of a playlist, in order: the separator each stands under and
\* its text, a metadata line and the line after it.
RECURSIVE Entries(_, _)
Entries(ls, under) ==
    IF ls = <<>> THEN <<>>
    ELSE IF IsSeparator(Head(ls))
      THEN Entries(Tail(ls), <<SeparatorName(Head(ls))>>)
    ELSE IF StartsWith(Head(ls), "#EXTINF:") /\ Len(ls) >= 2
      THEN <<[under |-> under, text |-> ls[1] \o "\n" \o ls[2] \o "\n\n"]>>
           \o Entries(Tail(Tail(ls)), under)
    ELSE Entries(Tail(ls), under)

\* The texts of the entries under one separator, in order.
RECURSIVE EntryTexts(_, _)
EntryTexts(entries, cat) ==
    IF entries = <<>> THEN <<>>
    ELSE (IF Head(entries).under = <<cat>> THEN <<Head(entries).text>> ELSE <<>>)
         \o EntryTexts(Tail(entries), cat)

\* The texts of the records of one category, in the order of the input.
RECURSIVE RecordTexts(_, _)
RecordTexts(chans, cat) ==
    IF chans = <<>> THEN <<>>
    ELSE (IF CategoryOf(Head(chans)) = cat THEN <<M3uEntry(Head(chans))>> ELSE <<>>)
         \o RecordTexts(Tail(chans), cat)

\* The place of a category in the preferred order, 8 for any other.
PreferredRank(cat) ==
    CASE cat = "Entertainment" -> 1
      [] cat = "Movies" -> 2
      [] cat = "Sports" -> 3
      [] cat = "Kids" -> 4
      [] cat = "Regional" -> 5
      [] cat = "News" -> 6
      [] cat = "Music" -> 7
      [] OTHER -> 8

\* Category a comes before category b in the playlist.
ComesBefore(a, b) ==
    \/ PreferredRank(a) < PreferredRank(b)
    \/ PreferredRank(a) = 8 /\ PreferredRank(b) = 8 /\ StrLess(a, b)

\* C7: create_m3u emits every record once, under the separator of its own
\* category; the separators stand in the preferred order, then the other
\* categories alphabetically; the records of a category keep their input order.
C7_SectionsAndOrder ==
    m3u_out # <<>>
      => LET ls == Split(m3u_out[1])
             seps == Separators(ls)
             entries == Entries(ls, <<>>)
         IN /\ Len(entries) = Len(channels)
            /\ \A c \in CategoryKeys(channels) :
                  EntryTexts(entries, c) = RecordTexts(channels, c)
            /\ {seps[k] : k \in 1..Len(seps)} = CategoryKeys(channels)
            /\ \A j, k \in 1..Len(seps) : j < k => ComesBefore(seps[j], seps[k])

\* A playlist was written for three records of three categories given in
\* the reverse of their output order.
C7_Witness ==
    /\ m3u_out # <<>>
    /\ Len(channels) = 3
    /\ CategoryOf(channels[1]) = "Zed"
    /\ CategoryOf(channels[2]) = "Docs"
    /\ CategoryOf(channels[3]) = "Movies"
    /\ Separators(Split(m3u_out[1])) = <<"Movies", "Docs", "Zed">>

RECURSIVE SumCounts(_)
SumCounts(items) ==
    IF items = <<>> THEN 0 ELSE Head(items).count + SumCounts(Tail(items))

\* C8: in the catalog the total channel count is the length of all_channels,
\* the per-category counts add up to it, and each count is the length of its
\* category's channel list.
C8_CountsAgree ==
    json_out # <<>>
      => LET doc == json_out[1]
         IN /\ doc.StreamFlex_SL_total_channels = Len(doc.all_channels)
            /\ SumCounts(doc.categories) = doc.StreamFlex_SL_total_channels
            /\ \A k \in 1..Len(doc.categories) :
                  doc.categories[k].count = Len(doc.categories[k].channels)

\* A catalog was built for three records, one of them without a group_title.
C8_Witness ==
    /\ json_out # <<>>
    /\ Len(channels) = 3
    /\ \E k \in 1..3 : "group_title" \notin DOMAIN channels[k]
    /\ json_out[1].total_categories = 2

\* C9: with API_KEY not set no fetch is attempted and no file is written; after
\* a failed fetch neither SL.m3u nor sl.json is written.
C9_NoOutputOnFailure ==
    /\ api_key = <<>> => fetch_calls = 0 /\ files = NoFiles
    /\ (fetch_calls > 0 /\ m3u_content = <<>>) => files = NoFiles

\* A run ended after its fetch failed.
C9_Witness ==
    /\ pc = "done"
    /\ fetch_calls = 1
    /\ m3u_content = <<>>

\* The number of entries of a playlist text.
CountEntries(text) ==
    LET ls == Split(text)
    IN Cardinality({k \in 1..Len(ls) : StartsWith(ls[k], "#EXTINF:")})

====
